---------------------------- MODULE Spec2Model ----------------------------
(***************************************************************************)
(* Model of src/tmarks/src/lib/api-client.ts: the HttpClient.request       *)
(* primitive with its 401 handling (handle401Error), the module-level      *)
(* refresh state (isRefreshing, refreshSubscribers) and the auth store it  *)
(* talks to.                                                               *)
(*                                                                         *)
(* Execution model: one JavaScript event loop.  An action of this module   *)
(* is one macrotask together with every microtask it schedules, i.e. the   *)
(* code that runs from the settling of an awaited external operation       *)
(* (fetch, refreshAccessToken, the setTimeout timer) up to the next await  *)
(* of an external operation.  Reading a response body (response.text())    *)
(* touches no shared state and is folded into the step that uses it.       *)
(*                                                                         *)
(* Tokens are naturals, NoToken (0) stands for null / ''.  Response bodies *)
(* are a small set of texts covering every class the code distinguishes;   *)
(* a body is drawn when the code reads it.                                 *)
(*                                                                         *)
(* The auth store is not part of the file.  useAuthStore.getState()        *)
(* returns the store's current state object, and the store replaces that   *)
(* object when it updates: an object obtained before an update keeps the   *)
(* fields it had.  handle401Error reads accessToken from the object it     *)
(* obtained before calling refreshAccessToken (lines 71, 73).              *)
(*                                                                         *)
(* options.headers is what the callers of a run pass as headers.  Only     *)
(* makeRequest reads it, and only to build the headers of a fetch, so      *)
(* Spec fixes it to none and HeaderSpec lets it range over HeadersInit.    *)
(*                                                                         *)
(* The variables refreshFails, clearCalls, hrefSets, clearedBy,            *)
(* onLoginPage, lastRefresh, settled and returned describe the step just   *)
(* taken (what it did to the outside); every step sets them anew.          *)
(***************************************************************************)
EXTENDS Integers, Sequences, FiniteSets, TLC

\* Number of requests issued during a run.
NumReq == 3

Req == 1..NumReq

\* accessToken: string | null; null and '' are both falsy and both are 0 here.
NoToken == 0

\* Status codes the transport may return.
StatusSet == {200, 204, 401, 500}

\* Body texts the transport may return: empty, not JSON, the JSON literal
\* null, a JSON object without an error field, and a JSON object whose
\* error field carries a server code.
BodySet == {"", "<html>", "null", "{}", "{error:E1}"}

NoResponse == [status |-> 0, body |-> ""]

\* A response whose body has not been read yet: fetch settles on the status
\* line and headers, and the text is produced when response.text() is awaited.
Unread(status) == [status |-> status, body |-> "(unread)"]

NoReturn == [req |-> 0, kind |-> "none", code |-> "", status |-> 0,
             path |-> "none", from |-> NoResponse, sends |-> 0, entries |-> 0,
             doomed |-> FALSE]

VARIABLES
  isRefreshing,        \* module-level flag (line 18)
  refreshSubscribers,  \* module-level callback list (line 19); a callback is
                       \* identified by the request whose promise it closes over
  accessToken,         \* useAuthStore state: the stored access token
  onLoginPage,         \* what window.location.pathname.includes('/login') gave
                       \* in the step just taken, FALSE if it was not evaluated
  pc,                  \* position of each request
  options,             \* headers member of the `options` the callers pass
  token,               \* request-local `token` (lines 49, 112)
  response,            \* request-local `response` (lines 105, 113)
  authStore,           \* accessToken of the state object captured at line 71
  waiter,              \* state of the promise created at line 91
  timer,               \* state of the timer created at line 92
  sends,               \* number of fetch calls made by each pending request
  sentAuth,            \* authToken argument of each request's latest makeRequest
  entries,             \* number of handle401Error calls made by each pending request
  flight,              \* the refresh in flight: its entrants and provider calls
  doomed,              \* pending waiters that saw a refresh fail
  refreshFails,        \* number of refreshes that failed in the step just taken
  clearCalls,          \* number of clearAuth() calls in the step just taken
  hrefSets,            \* number of location.href assignments in the step just taken
  clearedBy,           \* the request that ran clearAuthAndRedirect in the step
                       \* just taken, 0 if none did
  lastRefresh,         \* the broadcast made by the step just taken, if any
  settled,             \* the refreshAccessToken call that settled in the step
                       \* just taken, if any, and the token the store then held
  returned             \* the result handed to a caller by the step just taken, if any

vars == <<isRefreshing, refreshSubscribers, accessToken, onLoginPage, pc,
          options, token, response, authStore, waiter, timer, sends, sentAuth, entries,
          flight, doomed, refreshFails, clearCalls, hrefSets, clearedBy,
          lastRefresh, settled, returned>>

NoFlight == [by |-> 0, calls |-> 0, entrants |-> {}]

NoRefresh == [by |-> 0, token |-> NoToken, stored |-> NoToken,
              released |-> <<>>, skipped |-> {}]

NoSettle == [by |-> 0, outcome |-> "none", stored |-> NoToken]

-----------------------------------------------------------------------------
(* Pure helpers                                                            *)

\* response.ok
IsOk(status) == status >= 200 /\ status <= 299

\* JSON.parse(text): "throw" for a SyntaxError, otherwise the parsed value
\* described by whether it is null and by the code of its error field
\* ("" when the value has no (truthy) error field).
JSONParse(text) ==
  CASE text = ""           -> [threw |-> TRUE,  isNull |-> FALSE, error |-> ""]
    [] text = "<html>"     -> [threw |-> TRUE,  isNull |-> FALSE, error |-> ""]
    [] text = "null"       -> [threw |-> FALSE, isNull |-> TRUE,  error |-> ""]
    [] text = "{}"         -> [threw |-> FALSE, isNull |-> FALSE, error |-> ""]
    [] text = "{error:E1}" -> [threw |-> FALSE, isNull |-> FALSE, error |-> "E1"]

Ok(kind) == [kind |-> kind, code |-> "", status |-> 0]

ApiError(code, status) == [kind |-> "error", code |-> code, status |-> status]

\* Lines 164-175: whatever is thrown inside the outer try and is no ApiError.
NetworkError == ApiError("NETWORK_ERROR", 0)

\* `data.error || fallback` followed by new ApiError(...): reading a property
\* of null throws a TypeError, which reaches the outer catch.
ErrorFrom(data, fallback, status) ==
  IF data.isNull THEN NetworkError
  ELSE ApiError(IF data.error # "" THEN data.error ELSE fallback, status)

\* Lines 115-126: the error built from the response held in `response`.
Original401Error(resp) ==
  LET synth  == [threw |-> FALSE, isNull |-> FALSE, error |-> "UNAUTHORIZED"]
      parsed == IF resp.body = "" THEN synth ELSE JSONParse(resp.body)
      data   == IF parsed.threw THEN synth ELSE parsed
  IN ErrorFrom(data, "UNAUTHORIZED", resp.status)

\* Lines 129-163: the outcome of the response that is not handed to the
\* refresh logic.
ProcessResponse(resp) ==
  IF resp.status = 204 THEN Ok("empty")
  ELSE IF resp.body = ""
    THEN IF IsOk(resp.status) THEN Ok("empty")
         ELSE ApiError("EMPTY_RESPONSE", resp.status)
  ELSE LET data == JSONParse(resp.body) IN
    IF data.threw THEN ApiError("INVALID_RESPONSE", resp.status)
    ELSE IF ~IsOk(resp.status) THEN ErrorFrom(data, "UNKNOWN_ERROR", resp.status)
    ELSE Ok("data")

Range(s) == {s[i] : i \in 1..Len(s)}

-----------------------------------------------------------------------------
(* makeRequest: the headers of a fetch (lines 51-65)                       *)

\* What a caller may pass as options.headers (RequestInit): nothing, or the
\* header Authorization: Basic abc, held in a plain object or in a Headers
\* instance.
HeadersInit == {"undefined", "record", "Headers"}

NoHeader == [scheme |-> "none", token |-> NoToken]
Basic == [scheme |-> "Basic", token |-> NoToken]
Bearer(authToken) == [scheme |-> "Bearer", token |-> authToken]

\* The Authorization header the caller supplied.
CallerAuthorization(init) == IF init = "undefined" THEN NoHeader ELSE Basic

\* Lines 52-55: the Authorization member of the object literal after
\* `...options.headers`.  Object spread copies the own enumerable properties
\* of its operand: the members of a plain object, nothing of a Headers
\* instance (its entries are not properties).
Spread(init) == IF init = "record" THEN Basic ELSE NoHeader

\* Lines 52-64: the Authorization header of the fetch that
\* makeRequest(authToken) makes for a request with these options.
MakeRequest(init, authToken) ==
  LET headers == Spread(init) IN
  IF authToken # NoToken /\ headers = NoHeader THEN Bearer(authToken)
  ELSE headers

\* The Authorization header of the latest fetch of request r.
SentAuthorization(r) == MakeRequest(options, sentAuth[r])

-----------------------------------------------------------------------------
(* Initial state: a logged-in client, no request issued yet.               *)

\* The module-level state after import and the state of the store.
InitClient ==
  /\ isRefreshing = FALSE
  /\ refreshSubscribers = <<>>
  /\ accessToken = 1
  /\ onLoginPage = FALSE
  /\ pc = [r \in Req |-> "idle"]
  /\ token = [r \in Req |-> NoToken]
  /\ response = [r \in Req |-> NoResponse]
  /\ authStore = [r \in Req |-> NoToken]
  /\ waiter = [r \in Req |-> "none"]
  /\ timer = [r \in Req |-> "none"]
  /\ sends = [r \in Req |-> 0]
  /\ sentAuth = [r \in Req |-> NoToken]
  /\ entries = [r \in Req |-> 0]
  /\ flight = NoFlight
  /\ doomed = {}
  /\ refreshFails = 0
  /\ clearCalls = 0
  /\ hrefSets = 0
  /\ clearedBy = 0
  /\ lastRefresh = NoRefresh
  /\ settled = NoSettle
  /\ returned = NoReturn

\* The callers pass no headers.
Init == InitClient /\ options = "undefined"

\* The callers pass any of the headers of HeadersInit.
HeaderInit == InitClient /\ options \in HeadersInit

flagVars == <<isRefreshing, refreshSubscribers>>
promiseVars == <<waiter, timer>>

\* The step clears no credentials and fails no refresh.
NoAuthFailure ==
  /\ refreshFails' = 0
  /\ clearCalls' = 0
  /\ hrefSets' = 0
  /\ clearedBy' = 0
  /\ onLoginPage' = FALSE

\* A caller that awaits a request resumes in a microtask, before the event
\* loop runs anything else: no handler runs while a result is being handed over.
CallerResumed == returned = NoReturn

\* The caller takes the result of the request that has just returned.
Deliver ==
  /\ ~CallerResumed
  /\ returned' = NoReturn
  /\ NoAuthFailure
  /\ lastRefresh' = NoRefresh
  /\ settled' = NoSettle
  /\ UNCHANGED <<isRefreshing, refreshSubscribers, accessToken, pc, options,
                 token, response, authStore, waiter, timer, sends, sentAuth,
                 entries, flight, doomed>>

-----------------------------------------------------------------------------
(* The auth store (outside src/): login stores a token the client does    *)
(* not hold anywhere, refreshAccessToken stores such a token or none, and  *)
(* clearAuth stores null.                                                  *)

Max(S) == CHOOSE x \in S : \A y \in S : y <= x

\* A token that is held neither by the store nor by any pending request.
FreshToken ==
  1 + Max({accessToken} \cup {token[q] : q \in Req} \cup {authStore[q] : q \in Req})

\* What the store may hold when refreshAccessToken has fulfilled: a new
\* token, or none when the provider delivered none.
StoredByRefresh == {FreshToken, NoToken}

\* The user logs in again after the credentials were cleared.
Login ==
  /\ CallerResumed
  /\ accessToken = NoToken
  /\ accessToken' = FreshToken
  /\ NoAuthFailure
  /\ lastRefresh' = NoRefresh
  /\ settled' = NoSettle
  /\ returned' = NoReturn
  /\ UNCHANGED <<flight, doomed, flagVars, promiseVars>>
  /\ UNCHANGED <<pc, options, token, response, authStore, sends, sentAuth, entries>>

-----------------------------------------------------------------------------
(* HttpClient.request                                                      *)

\* Lines 44-49, 105, 51-65: the request reads the stored token and makes its
\* first fetch.  Requests are issued in the order of their identifiers.
Issue(r) ==
  /\ CallerResumed
  /\ pc[r] = "idle"
  /\ \A q \in Req : q < r => pc[q] # "idle"
  /\ token' = [token EXCEPT ![r] = accessToken]
  /\ sentAuth' = [sentAuth EXCEPT ![r] = accessToken]
  /\ sends' = [sends EXCEPT ![r] = @ + 1]
  /\ pc' = [pc EXCEPT ![r] = "sent1"]
  /\ NoAuthFailure
  /\ lastRefresh' = NoRefresh
  /\ settled' = NoSettle
  /\ returned' = NoReturn
  /\ UNCHANGED <<flight, doomed, options, response, authStore, entries>>
  /\ UNCHANGED <<accessToken, flagVars, promiseVars>>

\* The request hands `result` to its caller (lines 125, 131, 141, 143, 151,
\* 160, 163, 170); the request and its locals are gone.
Return(r, result, path, resp) ==
  /\ returned' = [req |-> r, kind |-> result.kind, code |-> result.code,
                  status |-> result.status, path |-> path, from |-> resp,
                  sends |-> sends[r], entries |-> entries[r],
                  doomed |-> r \in doomed]
  /\ pc' = [pc EXCEPT ![r] = "done"]
  /\ UNCHANGED options
  /\ token' = [token EXCEPT ![r] = NoToken]
  /\ sentAuth' = [sentAuth EXCEPT ![r] = NoToken]
  /\ response' = [response EXCEPT ![r] = NoResponse]
  /\ authStore' = [authStore EXCEPT ![r] = NoToken]
  /\ sends' = [sends EXCEPT ![r] = 0]
  /\ entries' = [entries EXCEPT ![r] = 0]

\* Line 105 throws (fetch rejects): lines 164-175.
FirstAttemptRaises(r) ==
  /\ CallerResumed
  /\ pc[r] = "sent1"
  /\ Return(r, NetworkError, "raise", NoResponse)
  /\ NoAuthFailure
  /\ lastRefresh' = NoRefresh
  /\ settled' = NoSettle
  /\ UNCHANGED <<flight, doomed>>
  /\ UNCHANGED <<accessToken, flagVars, promiseVars>>

\* Line 105 returns a response whose status is not 401: lines 129-163.  The
\* body of a 204 response is not read.
FirstResponse(r) ==
  /\ CallerResumed
  /\ pc[r] = "sent1"
  /\ \E st \in StatusSet \ {401}, b \in BodySet :
       LET resp == [status |-> st, body |-> b] IN
       /\ st = 204 => b = ""
       /\ Return(r, ProcessResponse(resp), "first", resp)
  /\ NoAuthFailure
  /\ lastRefresh' = NoRefresh
  /\ settled' = NoSettle
  /\ UNCHANGED <<flight, doomed>>
  /\ UNCHANGED <<accessToken, flagVars, promiseVars>>

\* Mutant of RefreshInFlight: the flag is not consulted.
RefreshInFlight_Ignored == FALSE

\* Line 68: the test of the module-level flag.
RefreshInFlight == isRefreshing

\* Mutant of StartRefresh: the flag is not raised before the provider is
\* called.
StartRefresh_FlagNotRaised(r) ==
  /\ CallerResumed
  /\ pc[r] = "sent1"
  /\ ~RefreshInFlight
  /\ response' = [response EXCEPT ![r] = Unread(401)]
  /\ authStore' = [authStore EXCEPT ![r] = accessToken]
  /\ entries' = [entries EXCEPT ![r] = @ + 1]
  /\ flight' = [by |-> r, calls |-> flight.calls + 1,
                entrants |-> flight.entrants \cup {r}]
  /\ pc' = [pc EXCEPT ![r] = "refreshing"]
  /\ NoAuthFailure
  /\ lastRefresh' = NoRefresh
  /\ settled' = NoSettle
  /\ returned' = NoReturn
  /\ UNCHANGED <<doomed, flagVars, options, token, sends, sentAuth>>
  /\ UNCHANGED <<accessToken, promiseVars>>

\* Line 105 returns 401 and handle401Error finds no refresh in flight
\* (lines 68-72): it raises the flag, captures the store's state object and
\* calls refreshAccessToken.
StartRefresh(r) ==
  /\ CallerResumed
  /\ pc[r] = "sent1"
  /\ ~RefreshInFlight
  /\ response' = [response EXCEPT ![r] = Unread(401)]
  /\ isRefreshing' = TRUE
  /\ authStore' = [authStore EXCEPT ![r] = accessToken]
  /\ entries' = [entries EXCEPT ![r] = @ + 1]
  /\ flight' = [by |-> r, calls |-> flight.calls + 1,
                entrants |-> flight.entrants \cup {r}]
  /\ pc' = [pc EXCEPT ![r] = "refreshing"]
  /\ NoAuthFailure
  /\ lastRefresh' = NoRefresh
  /\ settled' = NoSettle
  /\ returned' = NoReturn
  /\ UNCHANGED <<doomed, refreshSubscribers, options, token, sends, sentAuth>>
  /\ UNCHANGED <<accessToken, promiseVars>>

\* Line 105 returns 401 and handle401Error finds a refresh in flight
\* (lines 89-101): it arms the timer and subscribes the callback.
WaitForRefresh(r) ==
  /\ CallerResumed
  /\ pc[r] = "sent1"
  /\ RefreshInFlight
  /\ response' = [response EXCEPT ![r] = Unread(401)]
  /\ refreshSubscribers' = Append(refreshSubscribers, r)
  /\ waiter' = [waiter EXCEPT ![r] = "pending"]
  /\ timer' = [timer EXCEPT ![r] = "armed"]
  /\ entries' = [entries EXCEPT ![r] = @ + 1]
  /\ flight' = [flight EXCEPT !.entrants = @ \cup {r}]
  /\ pc' = [pc EXCEPT ![r] = "waiting"]
  /\ NoAuthFailure
  /\ lastRefresh' = NoRefresh
  /\ settled' = NoSettle
  /\ returned' = NoReturn
  /\ UNCHANGED <<doomed, isRefreshing, options, authStore, token, sends, sentAuth>>
  /\ UNCHANGED accessToken

\* Mutant of Pending: a handle that can be settled again after it was settled.
Pending_Resettable(w) == waiter[w] # "none"

\* A promise settles once: resolve and reject act on a pending promise only.
Pending(w) == waiter[w] = "pending"

\* Mutant of Resolved: the broadcast stops after the first callback.
Resolved_FirstOnly ==
  IF refreshSubscribers = <<>> THEN <<>>
  ELSE SelectSeq(<<Head(refreshSubscribers)>>, Pending)

\* Mutant of Resolved: the broadcast walks the list from its end.
Resolved_Reversed ==
  LET inOrder == SelectSeq(refreshSubscribers, Pending)
  IN [i \in 1..Len(inOrder) |-> inOrder[Len(inOrder) + 1 - i]]

\* Lines 25-28 with the callbacks of lines 96-99: the waiters whose promise
\* the broadcast resolves, in the order of the list.
Resolved == SelectSeq(refreshSubscribers, Pending)

\* Mutant of RefreshFulfilsWithToken: the flag is not cleared in the step of
\* the broadcast.
RefreshFulfilsWithToken_FlagLater(r) ==
  /\ CallerResumed
  /\ pc[r] = "refreshing"
  /\ accessToken' \in StoredByRefresh
  /\ settled' = [by |-> r, outcome |-> "fulfilled", stored |-> accessToken']
  /\ LET newToken == authStore[r]
         called   == Range(refreshSubscribers)
         resent   == Range(Resolved) \cup {r}
     IN /\ newToken # NoToken
        /\ waiter' = [q \in Req |-> IF q \in Range(Resolved) THEN "resolved"
                                    ELSE IF q \in called THEN "none" ELSE waiter[q]]
        /\ timer' = [q \in Req |-> IF q \in Range(Resolved) THEN "cleared"
                                   ELSE IF q \in called THEN "none" ELSE timer[q]]
        /\ token' = [q \in Req |-> IF q \in resent THEN newToken ELSE token[q]]
        /\ sentAuth' = [q \in Req |-> IF q \in resent THEN newToken ELSE sentAuth[q]]
        /\ sends' = [q \in Req |-> IF q \in resent THEN sends[q] + 1 ELSE sends[q]]
        /\ pc' = [q \in Req |-> IF q \in resent THEN "sent2" ELSE pc[q]]
        /\ lastRefresh' = [by |-> r, token |-> newToken, stored |-> accessToken',
                           released |-> Resolved, skipped |-> called \ Range(Resolved)]
  /\ refreshSubscribers' = <<>>
  /\ isRefreshing' = isRefreshing
  /\ authStore' = [authStore EXCEPT ![r] = NoToken]
  /\ flight' = flight
  /\ NoAuthFailure
  /\ returned' = NoReturn
  /\ UNCHANGED <<doomed, options, response, entries>>

\* Lines 72-79, 86-88, 110-113: refreshAccessToken fulfils, having stored a
\* new token or none, and the captured state object holds a token.  The
\* broadcast calls every callback of the list, the list and the flag are
\* cleared, and the refreshing request and every resolved waiter make their
\* second fetch with the token.  Promises and timers that were settled
\* before are referenced by nothing once the list is cleared.
RefreshFulfilsWithToken(r) ==
  /\ CallerResumed
  /\ pc[r] = "refreshing"
  /\ accessToken' \in StoredByRefresh
  /\ settled' = [by |-> r, outcome |-> "fulfilled", stored |-> accessToken']
  /\ LET newToken == authStore[r]
         called   == Range(refreshSubscribers)
         resent   == Range(Resolved) \cup {r}
     IN /\ newToken # NoToken
        /\ waiter' = [q \in Req |-> IF q \in Range(Resolved) THEN "resolved"
                                    ELSE IF q \in called THEN "none" ELSE waiter[q]]
        /\ timer' = [q \in Req |-> IF q \in Range(Resolved) THEN "cleared"
                                   ELSE IF q \in called THEN "none" ELSE timer[q]]
        /\ token' = [q \in Req |-> IF q \in resent THEN newToken ELSE token[q]]
        /\ sentAuth' = [q \in Req |-> IF q \in resent THEN newToken ELSE sentAuth[q]]
        /\ sends' = [q \in Req |-> IF q \in resent THEN sends[q] + 1 ELSE sends[q]]
        /\ pc' = [q \in Req |-> IF q \in resent THEN "sent2" ELSE pc[q]]
        /\ lastRefresh' = [by |-> r, token |-> newToken, stored |-> accessToken',
                           released |-> Resolved, skipped |-> called \ Range(Resolved)]
  /\ refreshSubscribers' = <<>>
  /\ isRefreshing' = FALSE
  /\ authStore' = [authStore EXCEPT ![r] = NoToken]
  /\ flight' = NoFlight
  /\ NoAuthFailure
  /\ returned' = NoReturn
  /\ UNCHANGED <<doomed, options, response, entries>>

\* Lines 178-186, called by request r.  The page the user is on is read
\* when the function runs.
ClearAuthAndRedirect(r) ==
  /\ accessToken' = NoToken
  /\ clearCalls' = 1
  /\ clearedBy' = r
  /\ onLoginPage' \in BOOLEAN
  /\ hrefSets' = IF onLoginPage' THEN 0 ELSE 1

\* Mutant of RefreshFailed: the catch of lines 80-85 does not rethrow, and
\* the request is left without a result.
RefreshFailed_NoRethrow(r) ==
  /\ refreshFails' = 1
  /\ ClearAuthAndRedirect(r)
  /\ isRefreshing' = FALSE
  /\ flight' = NoFlight
  /\ doomed' = doomed \cup {w \in Range(refreshSubscribers) : Pending(w)}
  /\ pc' = [pc EXCEPT ![r] = "hung"]
  /\ returned' = NoReturn
  /\ lastRefresh' = NoRefresh
  /\ UNCHANGED <<options, token, sentAuth, response, authStore, sends, entries>>
  /\ UNCHANGED <<refreshSubscribers, promiseVars>>

\* Mutant of RefreshFailed: the finally block of lines 86-88 is missing.
RefreshFailed_FlagKept(r) ==
  /\ refreshFails' = 1
  /\ ClearAuthAndRedirect(r)
  /\ flight' = NoFlight
  /\ doomed' = doomed \cup {w \in Range(refreshSubscribers) : Pending(w)}
  /\ \E b \in BodySet :
       LET resp == [response[r] EXCEPT !.body = b] IN
       Return(r, Original401Error(resp), "refresh", resp)
  /\ lastRefresh' = NoRefresh
  /\ UNCHANGED <<flagVars, promiseVars>>

\* Lines 80-88, 115-126: the refresh of request r failed.  The credentials
\* are cleared, the flag is cleared, the list of callbacks is left as it is,
\* and the request fails with the error of its 401 response.
RefreshFailed(r) ==
  /\ refreshFails' = 1
  /\ ClearAuthAndRedirect(r)
  /\ isRefreshing' = FALSE
  /\ flight' = NoFlight
  /\ doomed' = doomed \cup {w \in Range(refreshSubscribers) : Pending(w)}
  /\ \E b \in BodySet :
       LET resp == [response[r] EXCEPT !.body = b] IN
       Return(r, Original401Error(resp), "refresh", resp)
  /\ lastRefresh' = NoRefresh
  /\ UNCHANGED <<refreshSubscribers, promiseVars>>

\* Lines 72-74, 77-78: refreshAccessToken fulfils, having stored a new
\* token or none, but the captured state object holds no token.
RefreshFulfilsWithoutToken(r) ==
  /\ CallerResumed
  /\ pc[r] = "refreshing"
  /\ authStore[r] = NoToken
  /\ \E stored \in StoredByRefresh :
       settled' = [by |-> r, outcome |-> "fulfilled", stored |-> stored]
  /\ RefreshFailed(r)

\* Line 72 throws: refreshAccessToken rejects.
RefreshRejects(r) ==
  /\ CallerResumed
  /\ pc[r] = "refreshing"
  /\ settled' = [by |-> r, outcome |-> "rejected", stored |-> accessToken]
  /\ RefreshFailed(r)

\* Mutant of Timeout: the waiter is registered without a timer.
Timeout_NoTimer(r) ==
  /\ FALSE
  /\ UNCHANGED vars

\* Mutant of Timeout: the failing waiter clears the credentials too.
Timeout_Clearing(r) ==
  /\ CallerResumed
  /\ pc[r] = "waiting"
  /\ timer[r] = "armed"
  /\ timer' = [timer EXCEPT ![r] = "fired"]
  /\ Pending(r)
  /\ waiter' = [waiter EXCEPT ![r] = "rejected"]
  /\ doomed' = doomed \ {r}
  /\ \E b \in BodySet :
       LET resp == [response[r] EXCEPT !.body = b] IN
       Return(r, Original401Error(resp), "timeout", resp)
  /\ ClearAuthAndRedirect(r)
  /\ refreshFails' = 0
  /\ lastRefresh' = NoRefresh
  /\ settled' = NoSettle
  /\ UNCHANGED <<flight, flagVars>>

\* Lines 92-94, 115-126: the timer of a waiter fires and rejects its promise;
\* the request fails with the error of its 401 response.  The callback stays
\* in the list.
Timeout(r) ==
  /\ CallerResumed
  /\ pc[r] = "waiting"
  /\ timer[r] = "armed"
  /\ timer' = [timer EXCEPT ![r] = "fired"]
  /\ Pending(r)
  /\ waiter' = [waiter EXCEPT ![r] = "rejected"]
  /\ doomed' = doomed \ {r}
  /\ \E b \in BodySet :
       LET resp == [response[r] EXCEPT !.body = b] IN
       Return(r, Original401Error(resp), "timeout", resp)
  /\ NoAuthFailure
  /\ lastRefresh' = NoRefresh
  /\ settled' = NoSettle
  /\ UNCHANGED <<flight, accessToken, flagVars>>

\* Line 113 returns a response, which replaces `response`: lines 129-163.
\* The promise of a waiter that was resolved is referenced by nothing once
\* its request has returned.
RetryResponse(r) ==
  /\ CallerResumed
  /\ pc[r] = "sent2"
  /\ \E st \in StatusSet, b \in BodySet :
       LET resp == [status |-> st, body |-> b] IN
       /\ st = 204 => b = ""
       /\ Return(r, ProcessResponse(resp), "retry", resp)
  /\ waiter' = [waiter EXCEPT ![r] = "none"]
  /\ timer' = [timer EXCEPT ![r] = "none"]
  /\ doomed' = doomed \ {r}
  /\ NoAuthFailure
  /\ lastRefresh' = NoRefresh
  /\ settled' = NoSettle
  /\ UNCHANGED <<flight, accessToken, flagVars>>

\* Line 113 throws inside the try of line 109: the catch of lines 115-126
\* builds the error from `response`, which still is the first response.
RetryRaises(r) ==
  /\ CallerResumed
  /\ pc[r] = "sent2"
  /\ \E b \in BodySet :
       LET resp == [response[r] EXCEPT !.body = b] IN
       Return(r, Original401Error(resp), "retryRaise", resp)
  /\ waiter' = [waiter EXCEPT ![r] = "none"]
  /\ timer' = [timer EXCEPT ![r] = "none"]
  /\ doomed' = doomed \ {r}
  /\ NoAuthFailure
  /\ lastRefresh' = NoRefresh
  /\ settled' = NoSettle
  /\ UNCHANGED <<flight, accessToken, flagVars>>

Next ==
  \/ Deliver
  \/ Login
  \/ \E r \in Req : Issue(r)
  \/ \E r \in Req : FirstAttemptRaises(r)
  \/ \E r \in Req : FirstResponse(r)
  \/ \E r \in Req : StartRefresh(r)
  \/ \E r \in Req : WaitForRefresh(r)
  \/ \E r \in Req : RefreshFulfilsWithToken(r)
  \/ \E r \in Req : RefreshFulfilsWithoutToken(r)
  \/ \E r \in Req : RefreshRejects(r)
  \/ \E r \in Req : Timeout(r)
  \/ \E r \in Req : RetryResponse(r)
  \/ \E r \in Req : RetryRaises(r)

Spec == Init /\ [][Next]_vars

\* The fetch of line 105 settles: it throws, or it returns a response.
FirstFetchSettles(r) ==
  \/ FirstAttemptRaises(r)
  \/ FirstResponse(r)
  \/ StartRefresh(r)
  \/ WaitForRefresh(r)

\* The refreshAccessToken call of line 72 settles.
RefreshSettles(r) ==
  \/ RefreshFulfilsWithToken(r)
  \/ RefreshFulfilsWithoutToken(r)
  \/ RefreshRejects(r)

\* The fetch of line 113 settles.
RetrySettles(r) == RetryResponse(r) \/ RetryRaises(r)

\* The same client, called with or without headers of the caller's own.
\* options.headers is read by makeRequest only and decides nothing but the
\* headers of the fetch.
HeaderSpec == HeaderInit /\ [][Next]_vars

\* The event loop runs every microtask and every timer that is due.
FairSpec == Spec /\ WF_vars(Deliver) /\ \A r \in Req : WF_vars(Timeout(r))

\* The operation request r awaits settles and the request runs on: its
\* fetch, its refreshAccessToken call, or the timer of its waiter promise.
\* A request awaits one operation at a time.
Settles(r) ==
  \/ FirstFetchSettles(r)
  \/ RefreshSettles(r)
  \/ Timeout(r)
  \/ RetrySettles(r)

\* The event loop runs what is ready, every fetch settles and every
\* refreshAccessToken call settles: as long as a caller has a result to take
\* or a request awaits an operation, one of them runs on.
LiveSpec == Spec /\ WF_vars(Deliver \/ \E r \in Req : Settles(r))


-----------------------------------------------------------------------------
(* Properties                                                              *)

PendingWaiters == {r \in Req : pc[r] = "waiting" /\ waiter[r] = "pending"}

\* The place of callback w in the list s.
IndexOf(s, w) == CHOOSE i \in 1..Len(s) : s[i] = w

\* C1: of the requests that receive their first 401 while one refresh is in
\* flight (the one that started it included), exactly one has invoked
\* refreshAccessToken, once; every other one has only subscribed a callback.
C1_OneRefreshPerFlight ==
  flight.entrants # {} =>
    /\ flight.calls = 1
    /\ isRefreshing
    /\ flight.by \in flight.entrants
    /\ {r \in Req : pc[r] = "refreshing"} = {flight.by}
    /\ \A e \in flight.entrants \ {flight.by} :
         /\ e \in Range(refreshSubscribers)
         /\ pc[e] \in {"waiting", "done"}
         /\ authStore[e] = NoToken

C1_Witness ==
  /\ Cardinality(flight.entrants) >= 3
  /\ flight.calls = 1
  /\ Cardinality(PendingWaiters) >= 2

\* C2: a waiter that was queued when the refresh in flight failed is never
\* handed a token, never makes a second fetch, and ends with an error.
C2_FailedRefreshIsFatalForWaiters ==
  /\ \A r \in doomed : waiter[r] # "resolved" /\ pc[r] # "sent2" /\ sends[r] <= 1
  /\ returned.doomed => returned.kind = "error" /\ returned.sends = 1

\* C3: the token a successful refresh returns, broadcasts and attaches to the
\* retried requests is the token the store holds when the refresh completed.
C3_RefreshedTokenIsStoredToken ==
  lastRefresh.by # 0 =>
    /\ lastRefresh.token = lastRefresh.stored
    /\ \A q \in Range(lastRefresh.released) \cup {lastRefresh.by} :
         token[q] = accessToken /\ sentAuth[q] = accessToken

\* C4: a fetch that throws, on the first attempt or on the retry, makes the
\* request fail with NETWORK_ERROR and status 0.
C4_TransportFailureIsNetworkError ==
  returned.path \in {"raise", "retryRaise"} =>
    returned.kind = "error" /\ returned.code = "NETWORK_ERROR" /\ returned.status = 0

\* The code an error built from a body carries: the code of the body's error
\* field, or the fallback when the body is empty, is no JSON or has no error
\* field.
ExpectedCode(body, fallback) == IF body = "{error:E1}" THEN "E1" ELSE fallback

\* C5: a request makes at most two fetches and calls handle401Error at most
\* once; when the retry returns 401 too, the request fails with status 401
\* and an error built from the second response.
C5_OneRetryAndSecond401IsTerminal ==
  /\ \A r \in Req : sends[r] <= 2 /\ entries[r] <= 1
  /\ returned.sends <= 2 /\ returned.entries <= 1
  /\ (returned.path = "retry" /\ returned.from.status = 401) =>
       /\ returned.kind = "error"
       /\ returned.status = 401
       /\ returned.code =
            IF returned.from.body = "" THEN "EMPTY_RESPONSE"
            ELSE IF returned.from.body = "<html>" THEN "INVALID_RESPONSE"
            ELSE ExpectedCode(returned.from.body, "UNKNOWN_ERROR")

\* The part of C5 that holds whatever the bodies are: at most two fetches and
\* one handle401Error call per request, and a 401 on the retry ends the
\* request with an error.
C5_RetryIsBounded ==
  /\ \A r \in Req : sends[r] <= 2 /\ entries[r] <= 1
  /\ returned.sends <= 2 /\ returned.entries <= 1
  /\ (returned.path = "retry" /\ returned.from.status = 401) =>
       returned.kind = "error" /\ returned.sends = 2 /\ returned.entries = 1

\* C6: a successful refresh resolves every waiter that is queued and has not
\* timed out with the token it returns to the refreshing request, and the
\* refreshing request and each of these waiters then make exactly one more
\* fetch, with that token.
C6_SuccessReleasesEveryWaiter ==
  /\ \A r \in Req : sends[r] <= 2
  /\ lastRefresh.by # 0 =>
       /\ PendingWaiters = {}
       /\ \A q \in Req : pc[q] # "waiting"
       /\ \A i, j \in 1..Len(lastRefresh.released) :
            lastRefresh.released[i] = lastRefresh.released[j] => i = j
       /\ lastRefresh.by \notin Range(lastRefresh.released)
       /\ \A q \in Range(lastRefresh.released) \cup {lastRefresh.by} :
            /\ pc[q] = "sent2"
            /\ token[q] = lastRefresh.token
            /\ sentAuth[q] = lastRefresh.token
            /\ sends[q] = 2
       /\ \A q \in Range(lastRefresh.released) : waiter[q] = "resolved"

C6_Witness ==
  /\ Len(lastRefresh.released) >= 2
  /\ \A q \in Range(lastRefresh.released) : pc[q] = "sent2" /\ sends[q] = 2

\* C7: a waiter whose timer has fired has failed and stays so: no later step
\* resolves it, hands it a token or makes it fetch again; a waiter that was
\* resolved is never rejected afterwards.
C7_TimeoutExcludesDelivery ==
  [][\A r \in Req :
       /\ waiter[r] = "rejected" =>
            /\ pc[r] = "done" /\ pc'[r] = "done"
            /\ waiter'[r] \in {"rejected", "none"}
            /\ token'[r] = NoToken /\ sends'[r] = 0
            /\ r \notin Range(lastRefresh'.released)
       /\ (waiter[r] # "rejected" /\ waiter'[r] = "rejected") =>
            /\ waiter[r] = "pending"
            /\ returned'.req = r /\ returned'.kind = "error" /\ returned'.sends = 1
       /\ waiter[r] = "resolved" =>
            /\ waiter'[r] \in {"resolved", "none"}
            /\ timer'[r] # "fired"
            /\ returned'.path # "timeout" \/ returned'.req # r
    ]_vars

\* A refresh succeeded while the callback of a timed-out waiter was still in
\* the list, next to a waiter that was resolved.
C7_Witness ==
  /\ lastRefresh.skipped # {}
  /\ lastRefresh.released # <<>>
  /\ \A q \in lastRefresh.skipped : pc[q] = "done"

\* C8: every waiter eventually settles (resolved with a token or rejected by
\* its timer), whatever the refresh in flight does.
C8_WaiterSettles ==
  \A r \in Req : (waiter[r] = "pending") ~> (waiter[r] \in {"resolved", "rejected"})

\* A waiter is pending after the refresh it waited for has failed.
C8_Witness ==
  /\ ~isRefreshing
  /\ \E r \in doomed : waiter[r] = "pending"

\* C9: a step in which a refresh fails clears the credentials once and runs
\* the redirect once (an assignment of location.href unless the page is the
\* login page), both by the request that ran the refresh; no other step, in
\* particular no waiter's rejection and no successful refresh, does either.
C9_OneClearPerFailedRefresh ==
  /\ clearCalls = refreshFails
  /\ hrefSets = (IF onLoginPage THEN 0 ELSE refreshFails)
  /\ refreshFails \in {0, 1}
  /\ refreshFails = 1 <=> returned.path = "refresh"
  /\ clearCalls > 0 => clearedBy = returned.req /\ accessToken = NoToken
  /\ clearCalls = 0 => clearedBy = 0
  /\ returned.path = "timeout" => clearCalls = 0 /\ hrefSets = 0
  /\ lastRefresh.by # 0 => clearCalls = 0 /\ hrefSets = 0

\* A refresh fails while two waiters are queued.
C9_Witness ==
  /\ refreshFails = 1
  /\ clearCalls = 1
  /\ hrefSets = 1
  /\ ~onLoginPage
  /\ Cardinality(doomed) >= 2

\* C10: a request whose handle401Error call fails (its refresh fails or its
\* timer fires) makes no second fetch and fails with status 401 and the code
\* of the error field of the 401 body, or UNAUTHORIZED when the body is
\* empty, is no JSON or has no error field.
C10_CoordinatorFailureGivesOriginal401 ==
  returned.path \in {"refresh", "timeout"} =>
    /\ returned.sends = 1
    /\ returned.kind = "error"
    /\ returned.status = 401
    /\ returned.from.status = 401
    /\ returned.code = ExpectedCode(returned.from.body, "UNAUTHORIZED")

\* C11: the fetch a request has in flight, its first or its retry, carries
\* the caller's Authorization header when the caller supplied one; otherwise
\* it carries Bearer <token> for the token of that attempt, and no
\* Authorization header when that token is absent.
C11_CallerAuthorizationIsKept ==
  \A r \in Req : pc[r] \in {"sent1", "sent2"} =>
    /\ sentAuth[r] = token[r]
    /\ SentAuthorization(r) =
         IF CallerAuthorization(options) # NoHeader THEN CallerAuthorization(options)
         ELSE IF token[r] # NoToken THEN Bearer(token[r])
         ELSE NoHeader

\* C12: the outcome of a final response (any response but a 401 on the first
\* attempt) is decided by its status and the class of its body: 204 is an
\* empty success; an empty body is an empty success on 2xx and EMPTY_RESPONSE
\* at the status otherwise; a body that is no JSON is INVALID_RESPONSE at the
\* status; a parsed body is the success payload on 2xx and otherwise an
\* error at the status with the code of its error field, or UNKNOWN_ERROR.
C12_OutcomeByStatusAndBody ==
  returned.path \in {"first", "retry"} =>
    LET st == returned.from.status
        b  == returned.from.body
        failsWith(code) ==
          returned.kind = "error" /\ returned.code = code /\ returned.status = st
    IN /\ returned.path = "first" => st # 401
       /\ IF st = 204 THEN returned.kind = "empty"
          ELSE IF b = "" THEN
            IF IsOk(st) THEN returned.kind = "empty" ELSE failsWith("EMPTY_RESPONSE")
          ELSE IF b = "<html>" THEN failsWith("INVALID_RESPONSE")
          ELSE IF IsOk(st) THEN returned.kind = "data"
          ELSE failsWith(ExpectedCode(b, "UNKNOWN_ERROR"))

\* C13: the list of callbacks is empty whenever no refresh is in flight; in
\* particular the step in which a refresh settles, successfully or not,
\* leaves the list empty and the flag cleared.
C13_QueueEmptyUnlessInFlight ==
  /\ ~isRefreshing => refreshSubscribers = <<>>
  /\ (lastRefresh.by # 0 \/ refreshFails = 1) =>
       ~isRefreshing /\ refreshSubscribers = <<>>

\* C14: at most one call of refreshAccessToken is executing at any time; the
\* request that executes it is the one whose step changed the flag from
\* false to true; a request whose 401 finds the flag true subscribes a
\* callback and calls neither the store nor refreshAccessToken.
C14_OnlyTheFlagSetterRefreshes ==
  [][/\ Cardinality({r \in Req : pc'[r] = "refreshing"}) <= 1
     /\ flight'.calls <= 1
     /\ \A r \in Req :
          /\ pc'[r] = "refreshing" =>
               isRefreshing' /\ flight'.by = r /\ flight'.calls = 1
          /\ (pc[r] # "refreshing" /\ pc'[r] = "refreshing") =>
               ~isRefreshing /\ flight.calls = 0
          /\ (pc[r] = "sent1" /\ isRefreshing /\ pc'[r] \notin {"sent1", "done"}) =>
               /\ pc'[r] = "waiting"
               /\ refreshSubscribers' = Append(refreshSubscribers, r)
               /\ flight'.calls = flight.calls /\ flight'.by = flight.by
               /\ authStore'[r] = NoToken
    ]_vars

\* One request executes the refresh, another one waits for it and a third
\* one has its first fetch in flight.
C14_Witness ==
  /\ isRefreshing
  /\ \E r, w, q \in Req :
       /\ pc[r] = "refreshing" /\ flight.by = r
       /\ pc[w] = "waiting" /\ w \in flight.entrants /\ waiter[w] = "pending"
       /\ pc[q] = "sent1"

\* C15: the flag is true exactly while a call of refreshAccessToken is
\* executing: every step that ends one (it fulfils with a token, fulfils
\* without one, or rejects) clears the flag, and a request whose 401 arrives
\* when no call is executing starts a refresh of its own instead of waiting.
C15_FlagTracksTheRefreshCall ==
  [][/\ isRefreshing' <=> \E r \in Req : pc'[r] = "refreshing"
     /\ \A r \in Req :
          /\ (pc[r] = "refreshing" /\ pc'[r] # "refreshing") =>
               /\ ~isRefreshing'
               /\ lastRefresh'.by = r \/ refreshFails' = 1
          /\ (pc[r] = "sent1" /\ pc'[r] = "waiting") =>
               \E q \in Req \ {r} : pc[q] = "refreshing" /\ pc'[q] = "refreshing"
          /\ (pc[r] = "sent1" /\ pc'[r] \notin {"sent1", "done", "waiting"}) =>
               /\ pc'[r] = "refreshing"
               /\ \A q \in Req : pc[q] # "refreshing"
    ]_vars

\* A refresh is executing while a waiter of an earlier refresh, which
\* failed, is still pending.
C15_Witness ==
  /\ isRefreshing
  /\ \E r \in Req : pc[r] = "refreshing" /\ r \notin doomed
  /\ \E w \in doomed : waiter[w] = "pending" /\ w \notin flight.entrants

\* C16: when refreshAccessToken fulfils and the store holds no token
\* afterwards, the step is a failed refresh: the credentials are cleared and
\* the redirect runs (once, by the refreshing request), the flag is cleared,
\* no callback is called with a token, and the refreshing request fails
\* after its single fetch.
C16_TokenlessRefreshIsFailure ==
  (settled.outcome = "fulfilled" /\ settled.stored = NoToken) =>
    /\ refreshFails = 1
    /\ clearCalls = 1 /\ clearedBy = settled.by
    /\ hrefSets = (IF onLoginPage THEN 0 ELSE 1)
    /\ accessToken = NoToken
    /\ ~isRefreshing
    /\ lastRefresh = NoRefresh
    /\ \A q \in Req : pc[q] = "sent2" => token[q] # NoToken /\ q # settled.by
    /\ returned.req = settled.by
    /\ returned.path = "refresh"
    /\ returned.kind = "error"
    /\ returned.sends = 1

\* C17: no request stays pending forever: again and again every request
\* that was issued has returned, the request that waits for
\* refreshAccessToken included, and what the last of them handed to its
\* caller is a success or an ApiError.
C17_EveryRequestReturns ==
  []<>(/\ \A r \in Req : pc[r] \in {"idle", "done"}
       /\ returned.req # 0 => returned.kind \in {"empty", "data", "error"})

\* Every request has returned; the last one to return had executed the
\* refresh, which failed.
C17_Witness ==
  /\ \A r \in Req : pc[r] = "done"
  /\ returned.path = "refresh"
  /\ settled.by = returned.req

\* C18: a waiter registers behind every waiter that registered before it,
\* no step reorders the list, and a successful broadcast resolves the
\* waiters in the order of the list, all of them in the step that empties
\* the list: a waiter that registered earlier is resolved earlier.
C18_WaitersReleasedInOrder ==
  [][/\ \A r \in Req : (pc[r] = "sent1" /\ pc'[r] = "waiting") =>
          /\ r \notin Range(refreshSubscribers)
          /\ refreshSubscribers' = Append(refreshSubscribers, r)
     /\ \/ refreshSubscribers' = refreshSubscribers
        \/ refreshSubscribers' = <<>> /\ lastRefresh'.by # 0
        \/ \E r \in Req : refreshSubscribers' = Append(refreshSubscribers, r)
     /\ lastRefresh'.by # 0 =>
          LET released == lastRefresh'.released IN
          /\ refreshSubscribers' = <<>>
          /\ Range(released) = {w \in Range(refreshSubscribers) : waiter[w] = "pending"}
          /\ \A i, j \in 1..Len(released) : i < j =>
               IndexOf(refreshSubscribers, released[i])
                 < IndexOf(refreshSubscribers, released[j])
          /\ \A w \in Range(released) : waiter'[w] = "resolved"
    ]_vars

\* A broadcast released two waiters of which the one issued later had
\* registered first.
C18_Witness ==
  /\ Len(lastRefresh.released) >= 2
  /\ lastRefresh.released[1] > lastRefresh.released[2]
  /\ refreshSubscribers = <<>>

\* C19: testing the flag and subscribing are one step, and so are the
\* broadcast, the emptying of the list and the clearing of the flag: a
\* request subscribes only in a step that finds the flag true, leaves it
\* true and makes no broadcast; a step that makes a broadcast leaves the
\* flag false, the list empty and no waiter pending; and every pending
\* waiter has its callback in the list.
C19_NoWaiterIsLost ==
  [][/\ \A r \in Req : (pc[r] = "sent1" /\ pc'[r] = "waiting") =>
          /\ isRefreshing /\ isRefreshing'
          /\ lastRefresh'.by = 0
          /\ refreshSubscribers'[Len(refreshSubscribers')] = r
          /\ waiter'[r] = "pending" /\ timer'[r] = "armed"
     /\ lastRefresh'.by # 0 =>
          /\ ~isRefreshing'
          /\ refreshSubscribers' = <<>>
          /\ \A w \in Req : pc'[w] # "waiting" /\ waiter'[w] # "pending"
     /\ \A w \in Req : waiter'[w] = "pending" =>
          pc'[w] = "waiting" /\ w \in Range(refreshSubscribers')
    ]_vars

\* A broadcast has released a waiter while another request has its first
\* fetch in flight.
C19_Witness ==
  /\ lastRefresh.by # 0
  /\ lastRefresh.released # <<>>
  /\ ~isRefreshing
  /\ \E q \in Req : pc[q] = "sent1"

=============================================================================
